---- MODULE Spec2Model ----
(***************************************************************************)
(* Model of the pricing engine of src/main.py (calculate_pricing and its   *)
(* helpers calculate_logistics_cost and select_supplier).                  *)
(*                                                                         *)
(* Representation of the Python values:                                    *)
(*   - money is an integer number of cents (a float rounded to 2 decimals);*)
(*     the whole-unit fields of the response are integers (dollars);       *)
(*   - labor_hours and distance_km are given in hundredths (0.5 h = 50),   *)
(*     supplier prices in thousandths of a dollar (19.995 = 19995);        *)
(*   - job-type multipliers are given in hundredths (1.25 = 125), urgency  *)
(*     multipliers in quarters (1.25 = 5), which keeps every product below *)
(*     2^31;                                                               *)
(*   - round(x, 2) of the exact value num/den cents is the nearest cent;   *)
(*     when the exact value is a decimal tie (x.xx5) the float that Python *)
(*     rounds is the nearest double to it, which lies on one side or the   *)
(*     other, so both neighbours are possible outcomes;                    *)
(*   - round(x) of a 2-decimal float is exact at x.50 and rounds half to   *)
(*     even;                                                               *)
(*   - a str is a sequence of one-character strings, so that lower() and   *)
(*     upper() are computed character by character;                        *)
(*   - an optional value (None or v) is a sequence of length at most one.  *)
(***************************************************************************)
EXTENDS Integers, Sequences, FiniteSets, TLC

VARIABLES pc, job_data, job_type, urgency, state, labor_cost, supplier,
          material_source, material_cost, logistics_cost, subtotal,
          technician_payout, actual_margin_percent, clamp, client_price,
          platform_margin, pricing_confidence, approval_required,
          response, error

vars == <<pc, job_data, job_type, urgency, state, labor_cost, supplier,
          material_source, material_cost, logistics_cost, subtotal,
          technician_payout, actual_margin_percent, clamp, client_price,
          platform_margin, pricing_confidence, approval_required,
          response, error>>

(***************************************************************************)
(* Bound of the model: the largest number of entries of material_prices.   *)
(***************************************************************************)
MaxSuppliers == 2

(***************************************************************************)
(* The rate tables (IN is a reserved word, so that key is added with :>).  *)
(***************************************************************************)
STATE_LABOR_RATES ==
  [AL |-> 28, AK |-> 35, AZ |-> 32, AR |-> 26, CA |-> 38, CO |-> 34,
   CT |-> 40, DE |-> 33, FL |-> 30, GA |-> 29, HI |-> 42, ID |-> 28,
   IL |-> 36, IA |-> 27, KS |-> 26, KY |-> 27, LA |-> 27,
   ME |-> 31, MD |-> 34, MA |-> 41, MI |-> 32, MN |-> 33, MS |-> 25,
   MO |-> 28, MT |-> 29, NE |-> 27, NV |-> 34, NH |-> 32, NJ |-> 38,
   NM |-> 27, NY |-> 39, NC |-> 28, ND |-> 26, OH |-> 30, OK |-> 26,
   OR |-> 33, PA |-> 35, RI |-> 36, SC |-> 27, SD |-> 25, TN |-> 28,
   TX |-> 29, UT |-> 30, VT |-> 32, VA |-> 31, WA |-> 36, WV |-> 27,
   WI |-> 31, WY |-> 27] @@ ("IN" :> 29)

JOB_TYPE_MULTIPLIERS ==
  [plumbing |-> 120, electrical |-> 130, hvac |-> 125, roofing |-> 140,
   carpentry |-> 115, painting |-> 100, flooring |-> 110, drywall |-> 105,
   general_repair |-> 100, landscaping |-> 90, window_replacement |-> 115,
   insulation |-> 100, siding |-> 120, bathroom_remodel |-> 130,
   kitchen_remodel |-> 140]

URGENCY_MULTIPLIERS == [normal |-> 4, same_day |-> 5, emergency |-> 6]

\* cents per km
LOGISTICS_RATE_PER_KM == 50

(***************************************************************************)
(* str.lower(), str.upper() and the str a character sequence spells.       *)
(***************************************************************************)
LowerOf ==
  [A |-> "a", B |-> "b", C |-> "c", D |-> "d", E |-> "e", F |-> "f",
   G |-> "g", H |-> "h", I |-> "i", J |-> "j", K |-> "k", L |-> "l",
   M |-> "m", N |-> "n", O |-> "o", P |-> "p", Q |-> "q", R |-> "r",
   S |-> "s", T |-> "t", U |-> "u", V |-> "v", W |-> "w", X |-> "x",
   Y |-> "y", Z |-> "z"]

UpperOf ==
  [a |-> "A", b |-> "B", c |-> "C", d |-> "D", e |-> "E", f |-> "F",
   g |-> "G", h |-> "H", i |-> "I", j |-> "J", k |-> "K", l |-> "L",
   m |-> "M", n |-> "N", o |-> "O", p |-> "P", q |-> "Q", r |-> "R",
   s |-> "S", t |-> "T", u |-> "U", v |-> "V", w |-> "W", x |-> "X",
   y |-> "Y", z |-> "Z"]

lower(s) ==
  [i \in 1..Len(s) |-> IF s[i] \in DOMAIN LowerOf THEN LowerOf[s[i]] ELSE s[i]]

upper(s) ==
  [i \in 1..Len(s) |-> IF s[i] \in DOMAIN UpperOf THEN UpperOf[s[i]] ELSE s[i]]

RECURSIVE Str(_)
Str(s) == IF s = <<>> THEN "" ELSE s[1] \o Str(Tail(s))

(***************************************************************************)
(* round(x, 2) for x = num/den cents (den > 0): the set of cents Python    *)
(* can return; two values exactly when num/den is a tie.                   *)
(***************************************************************************)
round2dp(num, den) ==
  LET q == num \div den
      r == num % den
  IN  IF 2 * r < den THEN {q}
      ELSE IF 2 * r > den THEN {q + 1}
      ELSE {q, q + 1}

(***************************************************************************)
(* round(x) for a 2-decimal x given in cents: whole units, half to even.   *)
(***************************************************************************)
round0(cents) ==
  LET q == cents \div 100
      r == cents % 100
  IN  IF r < 50 THEN q
      ELSE IF r > 50 THEN q + 1
      ELSE IF q % 2 = 0 THEN q ELSE q + 1

(***************************************************************************)
(* calculate_logistics_cost: base fee 50 plus 0.50 per km.                 *)
(* distance_km is in hundredths of a km.                                   *)
(***************************************************************************)
calculate_logistics_cost(distance_km) ==
  LET base_cost == 5000
  IN  round2dp(base_cost * 100 + distance_km * LOGISTICS_RATE_PER_KM, 100)

(***************************************************************************)
(* sorted(items, key=price): a stable insertion sort.                      *)
(***************************************************************************)
\* variant: an unstable sort, an entry goes before the equal-priced ones
RECURSIVE InsertBeforeEqual(_, _)
InsertBeforeEqual(sorted, item) ==
  IF sorted = <<>> THEN <<item>>
  ELSE IF item[2] <= sorted[1][2] THEN <<item>> \o sorted
  ELSE <<sorted[1]>> \o InsertBeforeEqual(Tail(sorted), item)

RECURSIVE InsertByPrice(_, _)
InsertByPrice(sorted, item) ==
  IF sorted = <<>> THEN <<item>>
  ELSE IF item[2] < sorted[1][2] THEN <<item>> \o sorted
  ELSE <<sorted[1]>> \o InsertByPrice(Tail(sorted), item)

RECURSIVE SortedByPrice(_)
SortedByPrice(items) ==
  IF items = <<>> THEN <<>>
  ELSE InsertByPrice(SortedByPrice(SubSeq(items, 1, Len(items) - 1)),
                     items[Len(items)])

(***************************************************************************)
(* select_supplier: (None, 0) for an empty mapping, else the first entry   *)
(* of the mapping sorted by price.  material_prices is the sequence of the *)
(* mapping's items in iteration order.                                     *)
(***************************************************************************)
select_supplier(material_prices) ==
  IF material_prices = <<>> THEN <<<<>>, 0>>
  ELSE LET sorted_suppliers == SortedByPrice(material_prices)
       IN  <<<<sorted_suppliers[1][1]>>, sorted_suppliers[1][2]>>

(***************************************************************************)
(* The steps of calculate_pricing.                                         *)
(***************************************************************************)

\* variant: the lower limit itself is refused
HoursOutOfRangeInclusive(labor_hours) ==
  labor_hours <= 50 \/ labor_hours > 10000

\* labor_hours < 0.5 or labor_hours > 100
HoursOutOfRange(labor_hours) == labor_hours < 50 \/ labor_hours > 10000

\* if urgency not in URGENCY_MULTIPLIERS: urgency = 'normal'
NormalizeUrgency(u) == IF u \notin DOMAIN URGENCY_MULTIPLIERS THEN "normal" ELSE u

\* JOB_TYPE_MULTIPLIERS.get(job_type, 1.0)
JobMultiplier(jt) ==
  IF jt \in DOMAIN JOB_TYPE_MULTIPLIERS THEN JOB_TYPE_MULTIPLIERS[jt] ELSE 100

\* URGENCY_MULTIPLIERS.get(urgency, 1.0)
UrgencyMultiplier(u) ==
  IF u \in DOMAIN URGENCY_MULTIPLIERS THEN URGENCY_MULTIPLIERS[u] ELSE 4

\* variant: the urgency multiplier is left out of the product
LaborCostWithoutUrgency(st, jt, labor_hours, u) ==
  round2dp(STATE_LABOR_RATES[st] * JobMultiplier(jt) * labor_hours * 4, 400)

\* round(state_labor_rate * job_multiplier * labor_hours * urgency_multiplier, 2)
LaborCost(st, jt, labor_hours, u) ==
  round2dp(STATE_LABOR_RATES[st] * JobMultiplier(jt) * labor_hours
             * UrgencyMultiplier(u), 400)

\* round(material_cost, 2), the price being in thousandths
MaterialCost(price) == round2dp(price, 10)

\* variant: a 65% split
TechnicianPayout65(lc) == round2dp(lc * 65, 100)

\* round(labor_cost * 0.68, 2)
TechnicianPayout(lc) == round2dp(lc * 68, 100)

\* variant: the margin taken as a markup on the subtotal
TargetPriceAsMarkup(sub) == round2dp(sub * 127, 100)

\* round(subtotal / (1 - target_margin_percent), 2)
TargetPrice(sub) ==
  LET target_margin_percent == 27
  IN  round2dp(sub * 100, 100 - target_margin_percent)

\* variant: the margin taken as 27% of the price
PlatformMarginAsShare(cp, sub) == round2dp(cp * 27, 100)

\* round(client_price - subtotal, 2): a difference of two 2-decimal values
PlatformMargin(cp, sub) == round2dp(cp - sub, 1)

\* platform_margin / client_price if client_price > 0 else 0, as a fraction
ActualMarginPercent(pm, cp) ==
  IF cp > 0 THEN [num |-> pm, den |-> cp] ELSE [num |-> 0, den |-> 1]

(***************************************************************************)
(* The branch taken by "if actual < 0.20 ... elif actual > 0.35".  The     *)
(* quotient is a float: when the exact fraction equals a limit the float   *)
(* comparison can fall on either side.                                     *)
(***************************************************************************)
ClampBranches(amp) ==
  LET n == amp.num * 100
      lo == 20 * amp.den
      hi == 35 * amp.den
  IN  IF n < lo THEN {"low"}
      ELSE IF n = lo THEN {"low", "none"}
      ELSE IF n > hi THEN {"high"}
      ELSE IF n = hi THEN {"high", "none"}
      ELSE {"none"}

\* the client_price after the adjustment
ClampedPrice(branch, cp, sub) ==
  IF branch = "low" THEN round2dp(sub * 100, 80)
  ELSE IF branch = "high" THEN round2dp(sub * 100, 65)
  ELSE {cp}

\* variant: the second test resets the confidence
PricingConfidenceReset(material_prices, labor_hours, cp) ==
  IF labor_hours > 5000 \/ cp > 200000 THEN "medium" ELSE "high"

\* "high", "medium" if material_prices is empty, "medium" if
\* labor_hours > 50 or client_price > 2000
PricingConfidence(material_prices, labor_hours, cp) ==
  LET c1 == IF material_prices = <<>> THEN "medium" ELSE "high"
  IN  IF labor_hours > 5000 \/ cp > 200000 THEN "medium" ELSE c1

\* variant: the threshold applied to the displayed whole-unit price
ApprovalOnDisplayedPrice(u, cp, confidence) ==
  u = "emergency" \/ round0(cp) > 3000 \/ confidence = "low"

\* urgency == 'emergency', client_price > 3000, pricing_confidence == "low"
ApprovalRequired(u, cp, confidence) ==
  LET a1 == u = "emergency"
      a2 == IF cp > 300000 THEN TRUE ELSE a1
  IN  IF confidence = "low" THEN TRUE ELSE a2

\* the response: every money field rounded to a whole unit
BuildResponse(cp, tp, ms, mc, lc, lg, pm, confidence, approval) ==
  [client_price |-> round0(cp),
   technician_payout |-> round0(tp),
   material_source |-> ms,
   material_cost |-> round0(mc),
   labor_cost |-> round0(lc),
   logistics_cost |-> round0(lg),
   platform_margin |-> round0(pm),
   pricing_confidence |-> confidence,
   approval_required |-> approval]

(***************************************************************************)
(* The requests the model sends.                                           *)
(***************************************************************************)
JobTypeInputs ==
  { <<"p","l","u","m","b","i","n","g">>,
    <<"R","O","O","F","I","N","G">>,
    <<"g","a","r","d","e","n","i","n","g">> }

UrgencyInputs ==
  { <<"n","o","r","m","a","l">>,
    <<"S","a","m","e","_","D","a","y">>,
    <<"E","M","E","R","G","E","N","C","Y">>,
    <<"r","u","s","h">> }

StateInputs == { <<"C","a">>, <<"a","l">>, <<"Z","Z">> }

\* hundredths of an hour
LaborHoursInputs == {49, 50, 200, 5001, 10000, 10001}

\* hundredths of a km
DistanceInputs == {-40000, -9998, 0, 1000, 1001}

SupplierNames == {"Acme", "Best", "Cost"}

\* thousandths of a dollar
PriceInputs == {-14000, 19995, 1313896, 2043904}

\* a dict: its items in iteration order, the keys pairwise different
MaterialPricesInputs ==
  UNION { { m \in [1..n -> SupplierNames \X PriceInputs] :
              \A i, j \in 1..n : i # j => m[i][1] # m[j][1] }
          : n \in 0..MaxSuppliers }

JobDataInputs ==
  [job_type : JobTypeInputs, urgency : UrgencyInputs,
   labor_hours : LaborHoursInputs, state : StateInputs,
   distance_km : DistanceInputs, material_prices : MaterialPricesInputs]

Init ==
  /\ pc = "idle"
  /\ job_data = <<>>
  /\ job_type = ""
  /\ urgency = ""
  /\ state = ""
  /\ labor_cost = 0
  /\ supplier = <<<<>>, 0>>
  /\ material_source = ""
  /\ material_cost = 0
  /\ logistics_cost = 0
  /\ subtotal = 0
  /\ technician_payout = 0
  /\ actual_margin_percent = [num |-> 0, den |-> 1]
  /\ clamp = "none"
  /\ client_price = 0
  /\ platform_margin = 0
  /\ pricing_confidence = ""
  /\ approval_required = FALSE
  /\ response = <<>>
  /\ error = <<>>

\* the locals a rejected call never assigns
UnchangedAfterValidation ==
  UNCHANGED <<labor_cost, supplier, material_source, material_cost,
              logistics_cost, subtotal, technician_payout,
              actual_margin_percent, clamp, client_price, platform_margin,
              pricing_confidence, approval_required>>

\* calculate_quote: data = request.get_json(), then calculate_pricing(data)
calculate_quote ==
  /\ pc = "idle"
  /\ \E data \in JobDataInputs : job_data' = <<data>>
  /\ pc' = "called"
  /\ UNCHANGED <<job_type, urgency, state, response, error>>
  /\ UnchangedAfterValidation

\* return None, "Invalid state code"
RejectState(jd) ==
  /\ pc = "called"
  /\ Str(upper(jd.state)) \notin DOMAIN STATE_LABOR_RATES
  /\ pc' = "returned"
  /\ UNCHANGED job_data
  /\ job_type' = Str(lower(jd.job_type))
  /\ urgency' = Str(lower(jd.urgency))
  /\ state' = Str(upper(jd.state))
  /\ response' = <<>>
  /\ error' = <<"Invalid state code">>
  /\ UnchangedAfterValidation

\* return None, "Labor hours must be between 0.5 and 100"
RejectHours(jd) ==
  /\ pc = "called"
  /\ Str(upper(jd.state)) \in DOMAIN STATE_LABOR_RATES
  /\ HoursOutOfRange(jd.labor_hours)
  /\ pc' = "returned"
  /\ UNCHANGED job_data
  /\ job_type' = Str(lower(jd.job_type))
  /\ urgency' = NormalizeUrgency(Str(lower(jd.urgency)))
  /\ state' = Str(upper(jd.state))
  /\ response' = <<>>
  /\ error' = <<"Labor hours must be between 0.5 and 100">>
  /\ UnchangedAfterValidation

\* return response, None
Quote(jd) ==
  /\ pc = "called"
  /\ Str(upper(jd.state)) \in DOMAIN STATE_LABOR_RATES
  /\ ~HoursOutOfRange(jd.labor_hours)
  /\ LET jt == Str(lower(jd.job_type))
         u == NormalizeUrgency(Str(lower(jd.urgency)))
         st == Str(upper(jd.state))
         sel == select_supplier(jd.material_prices)
         ms == IF sel[1] = <<>> THEN "Standard Materials" ELSE sel[1][1]
     IN  \E lc \in LaborCost(st, jt, jd.labor_hours, u) :
         \E mc \in (IF sel[1] = <<>> THEN {0} ELSE MaterialCost(sel[2])) :
         \E lg \in calculate_logistics_cost(jd.distance_km) :
         \E tp \in TechnicianPayout(lc) :
         \E cp1 \in TargetPrice(lc + mc + lg) :
         \E pm1 \in PlatformMargin(cp1, lc + mc + lg) :
         \E br \in ClampBranches(ActualMarginPercent(pm1, cp1)) :
         \E cp \in ClampedPrice(br, cp1, lc + mc + lg) :
         \E pm \in (IF br = "none" THEN {pm1}
                    ELSE PlatformMargin(cp, lc + mc + lg)) :
           LET conf == PricingConfidence(jd.material_prices, jd.labor_hours, cp)
               appr == ApprovalRequired(u, cp, conf)
           IN  /\ pc' = "returned"
               /\ UNCHANGED job_data
               /\ job_type' = jt
               /\ urgency' = u
               /\ state' = st
               /\ labor_cost' = lc
               /\ supplier' = sel
               /\ material_source' = ms
               /\ material_cost' = mc
               /\ logistics_cost' = lg
               /\ subtotal' = lc + mc + lg
               /\ technician_payout' = tp
               /\ actual_margin_percent' = ActualMarginPercent(pm1, cp1)
               /\ clamp' = br
               /\ client_price' = cp
               /\ platform_margin' = pm
               /\ pricing_confidence' = conf
               /\ approval_required' = appr
               /\ response' = <<BuildResponse(cp, tp, ms, mc, lc, lg, pm,
                                              conf, appr)>>
               /\ error' = <<>>

\* one call of calculate_pricing(job_data)
calculate_pricing ==
  /\ pc = "called"
  /\ RejectState(job_data[1]) \/ RejectHours(job_data[1]) \/ Quote(job_data[1])

Next == calculate_quote \/ calculate_pricing

Spec == Init /\ [][Next]_vars

(***************************************************************************)
(* Properties.                                                             *)
(***************************************************************************)
Accepted == pc = "returned" /\ error = <<>>

Abs(n) == IF n < 0 THEN -n ELSE n

\* what the request asked for, read off the request as sent
ExpectedRate(st) ==
  CASE st = <<"C","a">> -> 38
    [] st = <<"a","l">> -> 28

ExpectedJobMultiplier(jt) ==
  CASE jt = <<"p","l","u","m","b","i","n","g">> -> 120
    [] jt = <<"R","O","O","F","I","N","G">> -> 140
    [] OTHER -> 100

ExpectedUrgency(u) ==
  CASE u = <<"S","a","m","e","_","D","a","y">> -> "same_day"
    [] u = <<"E","M","E","R","G","E","N","C","Y">> -> "emergency"
    [] OTHER -> "normal"

ExpectedUrgencyMultiplier(u) ==
  CASE ExpectedUrgency(u) = "same_day" -> 5
    [] ExpectedUrgency(u) = "emergency" -> 6
    [] OTHER -> 4

QuoteFields ==
  {"client_price", "technician_payout", "material_source", "material_cost",
   "labor_cost", "logistics_cost", "platform_margin", "pricing_confidence",
   "approval_required"}

\* whole is dollars, the 2-decimal value cents rounded to a whole unit
IsDisplayRounding(whole, cents) ==
  /\ Abs(whole * 100 - cents) <= 50
  /\ Abs(whole * 100 - cents) = 50 => whole % 2 = 0

\* C1: for every accepted request with a positive subtotal, the final
\* platform_margin divided by the final client_price lies in [0.20, 0.35].
C1_MarginWithinBand ==
  (Accepted /\ subtotal > 0) =>
     /\ client_price > 0
     /\ platform_margin * 100 >= 20 * client_price
     /\ platform_margin * 100 <= 35 * client_price

\* C2: for every accepted request, client_price >= subtotal and
\* platform_margin >= 0, whatever distance_km and material_prices are.
C2_PriceCoversSubtotal ==
  Accepted => (client_price >= subtotal /\ platform_margin >= 0)

\* C3: a request is rejected exactly when the upper-cased state is unknown
\* (reported first, "Invalid state code") or labor_hours is outside
\* [0.5, 100]; 0.5 and 100 are accepted; unknown urgency or job_type never
\* reject; a rejection carries no quote, an acceptance a complete quote and
\* no error.
C3_RejectionRule ==
  pc = "returned" =>
    LET jd == job_data[1]
        badState == state \notin DOMAIN STATE_LABOR_RATES
        badHours == jd.labor_hours < 50 \/ jd.labor_hours > 10000
    IN  /\ state = Str(upper(jd.state))
        /\ (error # <<>>) <=> (badState \/ badHours)
        /\ badState => error = <<"Invalid state code">>
        /\ (~badState /\ badHours) =>
              error = <<"Labor hours must be between 0.5 and 100">>
        /\ (~badState /\ jd.labor_hours \in {50, 10000}) => error = <<>>
        /\ error # <<>> => response = <<>>
        /\ error = <<>> =>
              (Len(response) = 1 /\ DOMAIN response[1] = QuoteFields)

C3_Witness ==
  /\ Accepted
  /\ job_data[1].labor_hours = 50
  /\ job_data[1].urgency = <<"r","u","s","h">>
  /\ job_data[1].job_type = <<"g","a","r","d","e","n","i","n","g">>
  /\ Len(response) = 1

\* C4: select_supplier returns the entry with the minimum price, the first
\* in iteration order among equal minima, hence the same entry under every
\* permutation when the prices are pairwise distinct; on an empty mapping
\* it returns (None, 0) and the quote says "Standard Materials" at cost 0.
C4_CheapestFirstSeen ==
  Accepted =>
    LET mp == job_data[1].material_prices
        n == Len(mp)
    IN  IF mp = <<>>
        THEN /\ supplier = <<<<>>, 0>>
             /\ material_source = "Standard Materials"
             /\ material_cost = 0
             /\ response[1].material_source = "Standard Materials"
             /\ response[1].material_cost = 0
        ELSE /\ \E i \in 1..n :
                  /\ supplier = <<<<mp[i][1]>>, mp[i][2]>>
                  /\ \A j \in 1..n : mp[j][2] >= mp[i][2]
                  /\ \A j \in 1..(i - 1) : mp[j][2] > mp[i][2]
             /\ material_source = supplier[1][1]
             /\ (\A i, j \in 1..n : i # j => mp[i][2] # mp[j][2]) =>
                   \A q \in Permutations(1..n) :
                      select_supplier([i \in 1..n |-> mp[q[i]]]) = supplier

C4_Witness ==
  /\ Accepted
  /\ Len(job_data[1].material_prices) >= 2
  /\ job_data[1].material_prices[1][2] = job_data[1].material_prices[2][2]
  /\ supplier = <<<<job_data[1].material_prices[1][1]>>,
                  job_data[1].material_prices[1][2]>>

\* C5 (as stated): in every returned quote the technician_payout field
\* equals round(labor_cost * 0.68, 2) of the quote's labor_cost field.
C5_PayoutOfReturnedLabor ==
  Accepted =>
    response[1].technician_payout * 100 = response[1].labor_cost * 68

\* C5 (amended): before display rounding technician_payout is
\* round(labor_cost * 0.68, 2) of the 2-decimal labor_cost, the returned
\* field is that value rounded to a whole unit, and so it is fixed by
\* labor_cost alone, whatever distance_km and material_prices are.
C5_PayoutBeforeDisplayRounding ==
  Accepted =>
    /\ Abs(technician_payout * 100 - labor_cost * 68) < 50
    /\ IsDisplayRounding(response[1].technician_payout, technician_payout)
    /\ IsDisplayRounding(response[1].labor_cost, labor_cost)

C5_Witness ==
  /\ Accepted
  /\ labor_cost = 9120
  /\ technician_payout = 6202
  /\ response[1].technician_payout = 62
  /\ response[1].labor_cost = 91

\* C6: labor_cost is rate * job multiplier * labor_hours * urgency
\* multiplier rounded to 2 decimals; an unknown job_type counts 1.0, an
\* unknown urgency becomes "normal" (1.0, not emergency); both are matched
\* case-insensitively; plumbing / CA / normal / 2 hours gives 91.20.
C6_LaborCostFormula ==
  Accepted =>
    LET jd == job_data[1]
        product == ExpectedRate(jd.state) * ExpectedJobMultiplier(jd.job_type)
                     * jd.labor_hours * ExpectedUrgencyMultiplier(jd.urgency)
    IN  /\ 2 * Abs(labor_cost * 400 - product) <= 400
        /\ urgency = ExpectedUrgency(jd.urgency)
        /\ (jd.urgency = <<"r","u","s","h">> /\ client_price <= 300000) =>
              ~approval_required
        /\ ( /\ jd.job_type = <<"p","l","u","m","b","i","n","g">>
             /\ jd.state = <<"C","a">>
             /\ jd.urgency = <<"n","o","r","m","a","l">>
             /\ jd.labor_hours = 200 ) => labor_cost = 9120

C6_Witness ==
  /\ Accepted
  /\ job_data[1].job_type = <<"R","O","O","F","I","N","G">>
  /\ job_data[1].urgency = <<"E","M","E","R","G","E","N","C","Y">>
  /\ job_data[1].state = <<"C","a">>
  /\ job_data[1].labor_hours = 10000
  /\ labor_cost = 798000

\* C7: pricing_confidence is "medium" exactly when material_prices was
\* empty, or labor_hours > 50, or client_price (the 2-decimal price the
\* engine computed) > 2000, and "high" otherwise, never "low"; an empty
\* material_prices yields "Standard Materials", cost 0 and not "high".
C7_ConfidenceRule ==
  Accepted =>
    LET jd == job_data[1]
    IN  /\ pricing_confidence \in {"high", "medium"}
        /\ (pricing_confidence = "medium") <=>
              \/ jd.material_prices = <<>>
              \/ jd.labor_hours > 5000
              \/ client_price > 200000
        /\ response[1].pricing_confidence = pricing_confidence
        /\ jd.material_prices = <<>> =>
              /\ response[1].material_source = "Standard Materials"
              /\ response[1].material_cost = 0
              /\ response[1].pricing_confidence # "high"

C7_Witness ==
  /\ Accepted
  /\ job_data[1].material_prices # <<>>
  /\ job_data[1].labor_hours <= 5000
  /\ client_price > 200000
  /\ client_price < 200050
  /\ response[1].pricing_confidence = "medium"

\* C8 (as stated): approval_required is true iff the urgency is
\* "emergency" or the quote's client_price field is greater than 3000.
C8_ApprovalByReturnedPrice ==
  Accepted =>
    (response[1].approval_required <=>
       (urgency = "emergency" \/ response[1].client_price > 3000))

\* C8 (amended): approval_required is true iff the urgency is "emergency"
\* or the 2-decimal client_price before display rounding is greater than
\* 3000 (the "low" trigger never fires); a returned quote whose
\* client_price field is below 3000 and whose urgency is not emergency has
\* approval_required false.
C8_ApprovalByUnroundedPrice ==
  Accepted =>
    /\ response[1].approval_required <=>
          (urgency = "emergency" \/ client_price > 300000)
    /\ pricing_confidence # "low"
    /\ IsDisplayRounding(response[1].client_price, client_price)
    /\ (response[1].client_price < 3000 /\ urgency # "emergency") =>
          ~response[1].approval_required

C8_Witness ==
  /\ Accepted
  /\ urgency # "emergency"
  /\ response[1].client_price = 3000
  /\ response[1].approval_required

\* C9: with distance_km >= 0 and all material prices >= 0 the margin of
\* the 27%-derived price lies in [0.20, 0.35], no clamp branch is taken and
\* client_price is round(subtotal / 0.73, 2).
C9_ClampUnreachable ==
  ( /\ Accepted
    /\ job_data[1].distance_km >= 0
    /\ \A i \in 1..Len(job_data[1].material_prices) :
          job_data[1].material_prices[i][2] >= 0 ) =>
    /\ actual_margin_percent.num * 100 > 20 * actual_margin_percent.den
    /\ actual_margin_percent.num * 100 < 35 * actual_margin_percent.den
    /\ clamp = "none"
    /\ 2 * Abs(client_price * 73 - subtotal * 100) < 73

C9_Witness ==
  /\ Accepted
  /\ job_data[1].distance_km = 0
  /\ job_data[1].material_prices = <<>>
  /\ job_data[1].labor_hours = 50
  /\ clamp = "none"
  /\ client_price > subtotal

\* C10: the whole-unit fields of a returned quote add up to within 2 of
\* client_price, and before display rounding platform_margin equals
\* client_price - subtotal exactly.
C10_BreakdownDrift ==
  Accepted =>
    LET r == response[1]
    IN  /\ Abs(r.client_price - (r.labor_cost + r.material_cost
                 + r.logistics_cost + r.platform_margin)) <= 2
        /\ subtotal = labor_cost + material_cost + logistics_cost
        /\ platform_margin = client_price - subtotal

C10_Witness ==
  /\ Accepted
  /\ response[1].client_price #
       response[1].labor_cost + response[1].material_cost
         + response[1].logistics_cost + response[1].platform_margin
  /\ platform_margin = client_price - subtotal

====
